---- MODULE Spec2Model ----
(***************************************************************************)
(* Model of src/app.py: the Groq completion client (query_groq_api), the   *)
(* response post-processor (process_response) and the Gradio wiring of the *)
(* three buttons (generate, refine, done).                                 *)
(*                                                                         *)
(* Text is a sequence of tokens.  The tokens of Alphabet are single        *)
(* characters; the fixed phrases of the program (prompt templates, error   *)
(* messages) are multi-character tokens that contain no backtick and no    *)
(* line break and neither start nor end with whitespace, so that strip,    *)
(* split and replace act on them exactly as on the characters they stand   *)
(* for.                                                                    *)
(***************************************************************************)
EXTENDS Integers, Sequences, FiniteSets, TLC

\* ------------------------------------------------------------------ bounds
MaxContentLen == 6     \* longest reply text enumerated for the post-processor
MaxClicks == 2         \* generate/refine invocations per behaviour

\* ------------------------------------------------------------- text helpers
\* The backtick character (U+0060), named because a TLA+ string cannot hold it
Backtick == "BACKTICK"
Alphabet == {"z", Backtick, "\n", " "}

RECURSIVE SeqsUpTo(_, _)
SeqsUpTo(S, n) ==
    IF n = 0 THEN {<<>>}
    ELSE LET p == SeqsUpTo(S, n - 1)
         IN  p \cup {Append(s, c) : s \in {t \in p : Len(t) = n - 1}, c \in S}

IsSpace(c) == c \in {" ", "\n"}

RECURSIVE lstrip(_)
lstrip(s) == IF s # <<>> /\ IsSpace(Head(s)) THEN lstrip(Tail(s)) ELSE s

RECURSIVE rstrip(_)
rstrip(s) ==
    IF s # <<>> /\ IsSpace(s[Len(s)]) THEN rstrip(SubSeq(s, 1, Len(s) - 1)) ELSE s

\* str.strip()
strip(s) == rstrip(lstrip(s))

StartsWith(s, p) == Len(p) <= Len(s) /\ SubSeq(s, 1, Len(p)) = p

\* str.replace(old, empty): leftmost non-overlapping occurrences removed
RECURSIVE replace(_, _)
replace(s, old) ==
    IF Len(s) < Len(old) THEN s
    ELSE IF StartsWith(s, old) THEN replace(SubSeq(s, Len(old) + 1, Len(s)), old)
    ELSE <<Head(s)>> \o replace(Tail(s), old)

BlankLine == <<"\n", "\n">>
Fence == <<Backtick, Backtick, Backtick>>
Tick == <<Backtick>>

\* Positions at which the separator occurs in s
Occurrences(s, sep) ==
    {i \in 1..(Len(s) - Len(sep) + 1) : SubSeq(s, i, i + Len(sep) - 1) = sep}

Min(S) == CHOOSE x \in S : \A y \in S : x <= y
Max(S) == CHOOSE x \in S : \A y \in S : x >= y

\* rsplit(sep, 1): cut at the last occurrence
rsplit1(s, sep) ==
    LET occ == Occurrences(s, sep)
    IN  IF occ = {} THEN <<s>>
        ELSE LET i == Max(occ)
             IN  <<SubSeq(s, 1, i - 1), SubSeq(s, i + Len(sep), Len(s))>>

\* str.split(sep, 1): cut at the first occurrence
split1(s, sep) ==
    LET occ == Occurrences(s, sep)
    IN  IF occ = {} THEN <<s>>
        ELSE LET i == Min(occ)
             IN  <<SubSeq(s, 1, i - 1), SubSeq(s, i + Len(sep), Len(s))>>

\* only the first replace of line 103: fences removed, single backticks kept
remove_fences_only(s) == replace(s, Fence)

\* the two replace calls of line 103: fences, then single backticks
remove_backticks(s) == replace(replace(s, Fence), Tick)

\* explanation = parts[-1]
explanation_last(parts) == parts[Len(parts)]

\* explanation = parts[1] if len(parts) > 1 else empty
explanation_of(parts) == IF Len(parts) > 1 THEN parts[2] ELSE <<>>

\* process_response: <<jql, explanation>>
process_response(response) ==
    LET parts == split1(response, BlankLine)
        jql == remove_backticks(strip(parts[1]))
        explanation == explanation_of(parts)
    IN  <<jql, explanation>>

\* ------------------------------------------------------- completion client
\* get_groq_api_key: os.getenv gives None when the variable is absent
KeyValues == {"None", "gsk_key"}

\* headers["Authorization"] = f"Bearer {api_key}"
authorization(key) == <<"Bearer", " ", key>>

\* the user message without the caller's text
user_message_fixed(text) == <<"Create a JQL query for the following request:", " ">>

\* f"Create a JQL query for the following request: {search_query}"
user_message(text) ==
    <<"Create a JQL query for the following request:", " ">> \o text

\* the request of one requests.post call: headers and the two messages
request(text, key) ==
    [authorization |-> authorization(key),
     system |-> <<"SYSTEM_PROMPT">>,
     user |-> user_message(text)]

\* What the remote service and the transport can do with one request
StatusCodes == {200, 401, 429, 500}
BodyShapes == {"notjson", "nochoices", "emptychoices", "nullcontent", "ok"}
\* Replies of each shape the post-processor distinguishes: empty, plain, with
\* backticks, with a blank line
ReplyTexts ==
    {<<>>, <<"z">>, <<Backtick, "z", Backtick>>, <<"z", "\n", "\n", "z">>}

TransportFailure ==
    [transport |-> FALSE, status |-> 0, shape |-> "notjson", content |-> <<>>]

Outcomes ==
    {TransportFailure} \cup
    {[transport |-> TRUE, status |-> st, shape |-> sh, content |-> c] :
        st \in StatusCodes, sh \in BodyShapes \ {"ok"}, c \in {<<>>}} \cup
    {[transport |-> TRUE, status |-> 200, shape |-> "ok", content |-> c] :
        c \in ReplyTexts} \cup
    {[transport |-> TRUE, status |-> st, shape |-> "ok", content |-> <<"z">>] :
        st \in StatusCodes \ {200}}

Return(v) == [kind |-> "return", exc |-> "", value |-> v]
Raise(type, text) == [kind |-> "raise", exc |-> type, value |-> text]

\* str(http_err) of Response.raise_for_status: status, reason and URL
http_error_text(status) ==
    IF status = 401 THEN <<"401 Client Error: Unauthorized for url: URL">>
    ELSE IF status = 429 THEN <<"429 Client Error: Too Many Requests for url: URL">>
    ELSE <<"500 Server Error: Internal Server Error for url: URL">>

\* lines 46-49, the body of the try statement
try_body(outcome) ==
    IF ~outcome.transport
      THEN Raise("ConnectionError", <<"Connection aborted.">>)
    ELSE IF outcome.status >= 400 /\ outcome.status < 600
      THEN Raise("HTTPError", http_error_text(outcome.status))
    ELSE IF outcome.shape = "notjson"
      THEN Raise("JSONDecodeError", <<"Expecting value: line 1 column 1 (char 0)">>)
    ELSE IF outcome.shape = "nochoices"
      THEN Raise("KeyError", <<"'choices'">>)
    ELSE IF outcome.shape = "emptychoices"
      THEN Raise("IndexError", <<"list index out of range">>)
    ELSE IF outcome.shape = "nullcontent"
      THEN Raise("AttributeError", <<"'NoneType' object has no attribute 'strip'">>)
    ELSE Return(strip(outcome.content))

RateLimitMessage == <<"API key limit reached. Please try again later.">>
HTTPErrorPrefix == <<"HTTP error occurred:", " ">>
OtherErrorPrefix == <<"Other error occurred:", " ">>

\* the handler of lines 50-54 without the 429 branch
except_http_error_plain(e, status) == Return(HTTPErrorPrefix \o e.value)

\* lines 50-54: except requests.exceptions.HTTPError as http_err
except_http_error(e, status) ==
    IF status = 429 THEN Return(RateLimitMessage)
    ELSE Return(HTTPErrorPrefix \o e.value)

\* no handler for the other exceptions: the exception leaves the function
except_exception_absent(e) == e

\* lines 55-56: except Exception as err
except_exception(e) == Return(OtherErrorPrefix \o e.value)

\* the body of the try statement with no except clause at all
query_groq_api_unguarded(outcome) == try_body(outcome)

\* query_groq_api, from the arrival of the response on
query_groq_api(outcome) ==
    LET r == try_body(outcome)
    IN  IF r.kind = "return" THEN r
        ELSE IF r.exc = "HTTPError" THEN except_http_error(r, outcome.status)
        ELSE except_exception(r)

\* ----------------------------------------------------- interaction surface
\* combined_query without the error text
combined_query_no_error(query, error_message) ==
    <<"Original query:", " ">> \o query \o
    <<"\n", "Jira error:", " ", "\n",
      "Please fix the JQL query based on this error.">>

\* line 108: the combined_query of refine_with_error
combined_query(query, error_message) ==
    <<"Original query:", " ">> \o query \o
    <<"\n", "Jira error:", " ">> \o error_message \o
    <<"\n", "Please fix the JQL query based on this error.">>

\* outputs in the wrong order
click_outputs_swapped(result, fields) ==
    [fields EXCEPT !.jql_output = result[2], !.explanation_output = result[1]]

\* outputs=[jql_output, explanation_output] of lines 114 and 119
click_outputs(result, fields) ==
    [fields EXCEPT !.jql_output = result[1], !.explanation_output = result[2]]

\* reset_ui of lines 73-74 wired to the two input fields only
done_outputs_two(fields) ==
    [fields EXCEPT !.search_query = <<>>, !.jira_error = <<>>]

\* lines 121-124: four empty strings for the four fields
done_outputs(fields) ==
    [search_query |-> <<>>, jira_error |-> <<>>,
     jql_output |-> <<>>, explanation_output |-> <<>>]

\* What the user types: nothing, plain text, text with a backtick
UserTexts == {<<>>, <<"k">>, <<"k", Backtick>>}

VARIABLES
    search_query,        \* the Search Query textbox
    jira_error,          \* the Jira error textbox
    jql_output,          \* the JQL Query textbox
    explanation_output,  \* the Explanation markdown
    api_key,             \* GROQ_API_KEY of the process environment
    pending,             \* handlers blocked in requests.post, oldest first
    invoked,             \* generate and refine handlers started
    sent,                \* requests.post calls made
    shownId,             \* the invocation whose result the output fields show
    last                 \* the latest step: event, handler, request posted,
                         \* outcome of the remote call, value returned

vars == <<search_query, jira_error, jql_output, explanation_output, api_key,
          pending, invoked, sent, shownId, last>>

Fields ==
    [search_query |-> search_query, jira_error |-> jira_error,
     jql_output |-> jql_output, explanation_output |-> explanation_output]

SetFields(f) ==
    /\ search_query' = f.search_query
    /\ jira_error' = f.jira_error
    /\ jql_output' = f.jql_output
    /\ explanation_output' = f.explanation_output

NoCall ==
    [id |-> 0, kind |-> "none"]
NoRequest == [authorization |-> <<>>, system |-> <<>>, user |-> <<>>]
NoOutcome == [transport |-> TRUE, status |-> 0, shape |-> "none"]
NoReturn == [kind |-> "none", exc |-> "", value |-> <<>>]

Step(event) ==
    [event |-> event, call |-> NoCall, request |-> NoRequest,
     outcome |-> NoOutcome, ret |-> NoReturn]

Init ==
    /\ search_query = <<>>
    /\ jira_error = <<>>
    /\ jql_output = <<>>
    /\ explanation_output = <<>>
    /\ api_key \in KeyValues
    /\ pending = <<>>
    /\ invoked = 0
    /\ sent = 0
    /\ shownId = 0
    /\ last = Step("init")

\* the user types into the Search Query textbox
EditSearchQuery ==
    \E t \in UserTexts \ {search_query} :
        /\ search_query' = t
        /\ last' = Step("edit")
        /\ UNCHANGED <<jira_error, jql_output, explanation_output, api_key,
                       pending, invoked, sent, shownId>>

\* the user pastes into the Jira error textbox
EditJiraError ==
    \E t \in UserTexts \ {jira_error} :
        /\ jira_error' = t
        /\ last' = Step("edit")
        /\ UNCHANGED <<search_query, jql_output, explanation_output, api_key,
                       pending, invoked, sent, shownId>>

\* create_jql_filter up to the blocking requests.post
Post(kind, text) ==
    /\ invoked < MaxClicks
    /\ invoked' = invoked + 1
    /\ sent' = sent + 1
    /\ pending' = Append(pending, [id |-> invoked + 1, kind |-> kind])
    /\ last' = [Step(kind) EXCEPT !.call = [id |-> invoked + 1, kind |-> kind],
                                  !.request = request(text, api_key)]
    /\ UNCHANGED <<search_query, jira_error, jql_output, explanation_output,
                   api_key, shownId>>

\* generate_button.click: the lambda of line 112 starts with inputs=search_query
GenerateClick == Post("generate", search_query)

\* refine_button.click: refine_with_error starts with [search_query, jira_error]
RefineClick == Post("refine", combined_query(search_query, jira_error))

RemoveAt(s, i) == SubSeq(s, 1, i - 1) \o SubSeq(s, i + 1, Len(s))

\* The remote rejects a request that carries no credential
Possible(call, outcome) ==
    authorization(api_key) = authorization("None")
        => ~outcome.transport \/ outcome.status # 200

\* The response of one pending handler arrives: the rest of query_groq_api,
\* process_response, and the outputs written to the two output fields.  A
\* handler that raises leaves the fields as they are.
Complete ==
    \E i \in 1..Len(pending), outcome \in Outcomes :
        LET call == pending[i]
            ret == query_groq_api(outcome)
        IN  /\ Possible(call, outcome)
            /\ pending' = RemoveAt(pending, i)
            /\ IF ret.kind = "return"
                 THEN /\ SetFields(click_outputs(process_response(ret.value), Fields))
                      /\ shownId' = call.id
                 ELSE UNCHANGED <<search_query, jira_error, jql_output,
                                  explanation_output, shownId>>
            /\ last' = [event |-> "complete",
                        call |-> call, request |-> NoRequest,
                        outcome |-> [transport |-> outcome.transport,
                                     status |-> outcome.status,
                                     shape |-> outcome.shape],
                        ret |-> ret]
            /\ UNCHANGED <<api_key, invoked, sent>>

\* done_button.click: no inputs, four outputs
DoneClick ==
    /\ SetFields(done_outputs(Fields))
    /\ shownId' = 0
    /\ last' = Step("reset")
    /\ UNCHANGED <<api_key, pending, invoked, sent>>

Next ==
    \/ EditSearchQuery
    \/ EditJiraError
    \/ GenerateClick
    \/ RefineClick
    \/ Complete
    \/ DoneClick

Spec == Init /\ [][Next]_vars

\* --------------------------------------------- post-processor on its own
\* Every reply text up to MaxContentLen characters
Contents == SeqsUpTo(Alphabet, MaxContentLen)

SuccessOutcome(c) ==
    [transport |-> TRUE, status |-> 200, shape |-> "ok", content |-> c]

\* One generate handler whose query_groq_api call has returned a reply
InitPost ==
    /\ search_query = <<>>
    /\ jira_error = <<>>
    /\ jql_output = <<>>
    /\ explanation_output = <<>>
    /\ api_key = "gsk_key"
    /\ pending = <<[id |-> 1, kind |-> "generate"]>>
    /\ invoked = 1
    /\ sent = 1
    /\ shownId = 0
    /\ \E c \in Contents :
          last = [event |-> "returned", call |-> [id |-> 1, kind |-> "generate"],
                  request |-> NoRequest,
                  outcome |-> [transport |-> TRUE, status |-> 200, shape |-> "ok"],
                  ret |-> query_groq_api(SuccessOutcome(c))]

\* process_response applied to the returned text, outputs written
ProcessResponse ==
    /\ last.event = "returned"
    /\ SetFields(click_outputs(process_response(last.ret.value), Fields))
    /\ shownId' = last.call.id
    /\ pending' = <<>>
    /\ last' = [last EXCEPT !.event = "complete"]
    /\ UNCHANGED <<api_key, invoked, sent>>

NextPost == ProcessResponse

SpecPost == InitPost /\ [][NextPost]_vars

\* ------------------------------------------------------------------ claims
\* t contains s as a contiguous piece
Contains(t, s) ==
    \E i \in 0..(Len(t) - Len(s)) : SubSeq(t, i + 1, i + Len(s)) = s

BlankAt(s, i) == i >= 1 /\ i < Len(s) /\ s[i] = "\n" /\ s[i + 1] = "\n"
HasBlankLine(s) == \E i \in 1..Len(s) : BlankAt(s, i)
FirstBlank(s) ==
    CHOOSE i \in 1..Len(s) : BlankAt(s, i) /\ \A j \in 1..(i - 1) : ~BlankAt(s, j)
TextBefore(s) == SubSeq(s, 1, FirstBlank(s) - 1)
TextAfter(s) == SubSeq(s, FirstBlank(s) + 2, Len(s))
WithoutBackticks(s) == SelectSeq(s, LAMBDA c : c # Backtick)

\* s without its leading and trailing whitespace
Trimmed(s) ==
    LET ink == {i \in 1..Len(s) : s[i] \notin {" ", "\n"}}
    IN  IF ink = {} THEN <<>> ELSE SubSeq(s, Min(ink), Max(ink))

Completed == last.event = "complete"
Raw == last.ret.value

IsFailure(o) == ~o.transport \/ o.status >= 400 \/ o.shape # "ok"

\* C1: whatever the remote call does (success, 429, another HTTP error, a
\* transport failure, a malformed or incomplete JSON body, no credential),
\* query_groq_api returns a string and no exception leaves it.
C1_AlwaysReturnsString ==
    Completed => last.ret.kind = "return" /\ last.ret.value \in Seq(STRING)

\* C1 case: a 200 response whose message content is null (line 49 raises)
C1_Witness ==
    Completed /\ last.outcome.status = 200 /\ last.outcome.shape = "nullcontent"
    /\ api_key = "gsk_key"

\* C2: on HTTP 429 the client returns exactly the fixed rate-limit message,
\* whatever the body; on any other HTTP error status it returns a message
\* that starts with "HTTP error occurred:".
C2_RateLimitMessage ==
    Completed /\ last.outcome.transport =>
        /\ last.outcome.status = 429 => last.ret = Return(RateLimitMessage)
        /\ last.outcome.status >= 400 /\ last.outcome.status # 429 =>
              /\ last.ret.kind = "return"
              /\ StartsWith(last.ret.value, <<"HTTP error occurred:">>)

\* C2 case: a 429 response that carries a well-formed completion body
C2_Witness ==
    Completed /\ last.outcome.status = 429 /\ last.outcome.shape = "ok"

\* C3 as stated: with a blank line in the reply, the query is the text before
\* the first blank line with the backticks removed, the explanation all the
\* text after it.
C3_Original ==
    Completed /\ last.ret.kind = "return" /\ HasBlankLine(Raw) =>
        /\ jql_output = WithoutBackticks(TextBefore(Raw))
        /\ explanation_output = TextAfter(Raw)

\* C3 amended: the query is the text before the first blank line, trimmed of
\* leading and trailing whitespace and then with the backticks removed; the
\* explanation is all the text after the first blank line.
C3_SplitAtFirstBlankLine ==
    Completed /\ last.ret.kind = "return" /\ HasBlankLine(Raw) =>
        /\ jql_output = WithoutBackticks(Trimmed(TextBefore(Raw)))
        /\ explanation_output = TextAfter(Raw)

\* C3 case: a reply with two blank lines, the second kept in the explanation
C3_Witness ==
    /\ Completed
    /\ HasBlankLine(Raw)
    /\ HasBlankLine(explanation_output)
    /\ jql_output # <<>>

\* C4 as stated: with no blank line in the reply, the query is the whole
\* trimmed reply and the explanation is empty.
C4_Original ==
    Completed /\ last.ret.kind = "return" /\ ~HasBlankLine(Raw) =>
        /\ jql_output = Trimmed(Raw)
        /\ explanation_output = <<>>

\* C4 amended: with no blank line in the reply, the query is the trimmed reply
\* with its backticks removed and the explanation is empty.
C4_NoBlankLine ==
    Completed /\ last.ret.kind = "return" /\ ~HasBlankLine(Raw) =>
        /\ jql_output = WithoutBackticks(Trimmed(Raw))
        /\ explanation_output = <<>>

\* C4 case: a reply of one line with a backtick and a single line break in it
C4_Witness ==
    /\ Completed
    /\ ~HasBlankLine(Raw)
    /\ Contains(Raw, <<Backtick>>)
    /\ Contains(Raw, <<"\n">>)
    /\ jql_output # <<>>

\* C5: the query returned by process_response holds no backtick, hence no
\* code fence either.
C5_NoBackticksInQuery ==
    Completed /\ last.ret.kind = "return" => ~Contains(jql_output, <<Backtick>>)

\* C5 case: a fence and a single backtick in the query segment of the reply
C5_Witness ==
    /\ Completed
    /\ Contains(Raw, Fence \o <<"z", Backtick>>)
    /\ jql_output # <<>>

\* C6: after the done button's handler all four fields are empty.
C6_ResetClearsAll ==
    last.event = "reset" =>
        /\ search_query = <<>>
        /\ jira_error = <<>>
        /\ jql_output = <<>>
        /\ explanation_output = <<>>

\* C6 case: reset with a handler still waiting and another already displayed
C6_Witness == last.event = "reset" /\ invoked >= 2 /\ Len(pending) = 1

\* C7 as stated: the user message of a refine request contains the query
\* shown in the query field and the error text.
C7_Original ==
    last.event = "refine" =>
        /\ Contains(last.request.user, jql_output)
        /\ Contains(last.request.user, jira_error)

\* C7 amended: the user message of a refine request contains the text of the
\* search-query field (the intent) and the error text, both verbatim.
C7_RefineCombinesInputs ==
    last.event = "refine" =>
        /\ Contains(last.request.user, search_query)
        /\ Contains(last.request.user, jira_error)

\* C7 case: refine with both fields filled, differently
C7_Witness ==
    /\ last.event = "refine"
    /\ search_query # <<>>
    /\ jira_error # <<>>
    /\ search_query # jira_error

\* C8: every generate or refine invocation makes one requests.post call, whose
\* user message contains the intent text; a failed call is not repeated and
\* no other step posts.
C8_OneRequestPerInvocation ==
    /\ sent = invoked
    /\ last.event \in {"generate", "refine"} =>
          /\ Contains(last.request.user, search_query)
          /\ last.request.authorization = <<"Bearer", " ", api_key>>
    /\ last.event \notin {"generate", "refine"} => last.request = NoRequest

\* C8 case: two invocations, both answered, the later answer a failure
C8_Witness ==
    /\ Completed
    /\ IsFailure(last.outcome)
    /\ invoked = 2
    /\ sent = 2
    /\ pending = <<>>

\* C9: the output fields show the result of the response that arrived last,
\* whichever invocation it belongs to.
C9_LastArrivalWins ==
    Completed /\ last.ret.kind = "return" =>
        /\ shownId = last.call.id
        /\ jql_output = process_response(last.ret.value)[1]
        /\ explanation_output = process_response(last.ret.value)[2]

\* C9 case: every response has arrived and the fields show the result of an
\* invocation that is not the most recently triggered one
C9_Witness ==
    /\ Completed
    /\ pending = <<>>
    /\ invoked >= 2
    /\ shownId = last.call.id
    /\ shownId < invoked
    /\ jql_output # <<>>

\* C10: after a failed generate or refine (rate limit, other HTTP failure, any
\* other failure) the query field shows the client's error message, the
\* explanation is empty, and generate, refine and reset can still be invoked.
C10_FailureDisplayed ==
    Completed /\ IsFailure(last.outcome) =>
        /\ last.ret.kind = "return"
        /\ \/ last.ret.value = RateLimitMessage
           \/ StartsWith(last.ret.value, <<"HTTP error occurred:">>)
           \/ StartsWith(last.ret.value, <<"Other error occurred:">>)
        /\ jql_output = last.ret.value
        /\ explanation_output = <<>>
        /\ ENABLED DoneClick
        /\ invoked < MaxClicks => ENABLED GenerateClick /\ ENABLED RefineClick

\* C10 case: a refine whose request never reached the remote
C10_Witness ==
    /\ Completed
    /\ ~last.outcome.transport
    /\ last.call.kind = "refine"
    /\ invoked < MaxClicks

====
